---- MODULE Spec2Model ----
(***************************************************************************)
(* A model of rust-mc-classic-js (src/src/lib.rs, src/converter/src/       *)
(* random.rs): the savedGame codec, the settings codec and the Firefox     *)
(* localStorage persistence layout.                                        *)
(*                                                                         *)
(* Text is modelled as a sequence of atoms.  An atom is either one         *)
(* character that matters to a JSON reader (a double quote, a backslash,   *)
(* a brace, a colon, a comma, a control character) or                      *)
(* a run of ordinary characters ("worldSeed", "p0_0_0", "128").  The       *)
(* serializers build their output atom by atom exactly as the code         *)
(* appends its pieces; the reader (serde_json) lexes the atoms again.      *)
(***************************************************************************)
EXTENDS Integers, Sequences, FiniteSets, TLC

VARIABLES
    pc,          \* position of the caller's script
    level,       \* JSLevel handed to serialize_saved_game
    tile_map,    \* Vec<u8> handed to serialize_saved_game, 0-based in the code
    opt,         \* the opt argument of the last serialize_saved_game call
    json,        \* result of the first serialize_saved_game call
    decoded,     \* result of deserialize_saved_game
    json2,       \* result of re-serializing the decoded level
    generated,   \* result of generate_saved_game_from_seed
    settings,    \* Settings handed to serialize_settings
    settings_json,    \* result of serialize_settings
    settings_back,    \* result of deserialize_settings
    disk,        \* the artifact directory: its directories and plain files
    db,          \* ls/data.sqlite: pragmas and the tables data and database
    json_strings,     \* the payloads handed to the last write_data call
    write_result,     \* how the last write_data / write_saved_game call ended
    write_failed,     \* the steps of the last write call that failed
    read_key,    \* the key of the last read_from_db call
    read_result, \* result of the last read_from_db call
    writes,      \* number of write calls so far (also the clock's reading)
    random,      \* the Random value (converter/src/random.rs), <<>> before Random::new
    rand_seed,   \* the seed that was handed to Random::new
    rand_out,    \* what the last call on the Random value returned
    rand_calls,  \* number of calls made on the Random value
    command,     \* what the last write_*_command call returned
    command_call,     \* that call: the function and its arguments
    command_file      \* content of the file the command functions write to

codecVars == <<level, tile_map, opt, json, decoded, json2, generated>>
settingsVars == <<settings, settings_json, settings_back>>
storeVars == <<disk, db, json_strings, write_result, write_failed, read_key,
               read_result, writes>>
randomVars == <<random, rand_seed, rand_out, rand_calls>>
commandVars == <<command, command_call, command_file>>
utilVars == <<randomVars, commandVars>>
vars == <<pc, codecVars, settingsVars, storeVars, utilVars>>

(***************************************************************************)
(* Bounds of the model.                                                    *)
(***************************************************************************)
\* Height of the world: `let y: i32 = 64` in the code, scaled down.
Height == 2
\* At most this many changes to a generated world: edited cells of the tile
\* buffer and entries of the level's changedBlocks map, counted together.
MaxChanges == 2
\* Longest text put into a string field of Settings.
MaxStrLen == 2
\* Longest payload handed to write_data.
MaxPayloadLen == 2
\* Number of write calls on one artifact path.
MaxWrites == 2
\* Number of calls made on one Random value.
MaxCalls == 5

\* World sizes: the code's 128, 256, 512 scaled down (0: an empty world).
WorldSizes == {1, 2}
Seeds == {0, 1}
\* Byte values that occur in buffers and overrides; 255 is the sentinel.
Bytes == {0, 1, 255}
Opts == {0, 1, 2}

\* ChangedBlocks::new(1,255).bt, the "no override" marker of line 227
Sentinel == 255

(***************************************************************************)
(* Numbers as text: format!("{}", n) is ToString(n); the reader turns the  *)
(* atom back into its number and checks the width of the target type.      *)
(***************************************************************************)
NumRange == -1 .. 300
NumText == {ToString(n) : n \in NumRange}
NumOf == [a \in NumText |-> CHOOSE n \in NumRange : ToString(n) = a]
U8 == 0 .. 255

RECURSIVE Concat(_)
Concat(s) == IF s = <<>> THEN "" ELSE Head(s) \o Concat(Tail(s))

RECURSIVE Flatten(_)
Flatten(ss) == IF ss = <<>> THEN <<>> ELSE Head(ss) \o Flatten(Tail(ss))

Ok(v) == [status |-> "ok", value |-> v]
Panic == [status |-> "panic", value |-> <<>>]
None == [status |-> "none", value |-> <<>>]

(***************************************************************************)
(* The terrain generator, random_level_worker::start_generation, is not    *)
(* among the sources.  It is a deterministic function of (world size,      *)
(* seed) returning a sparse map from flat index to block; this stand-in    *)
(* puts block 1 on every index whose parity differs from the seed's.       *)
(***************************************************************************)
start_generation(world_size, seed) ==
    [i \in {n \in 0 .. (world_size * Height * world_size - 1) : (n + seed) % 2 = 1} |-> 1]

\* get_tile_map: the sparse map copied into a Vec, 0 where absent.
get_tile_map(world_size, seed) ==
    LET lvl == start_generation(world_size, seed)
    IN  [n \in 1 .. (world_size * Height * world_size) |->
            IF (n - 1) \in DOMAIN lvl THEN lvl[n - 1] ELSE 0]

(***************************************************************************)
(* serialize_saved_game                                                    *)
(***************************************************************************)
\* format!("p{}_{}_{}", k, i, j)
PosKey(k, i, j) == "p" \o ToString(k) \o "_" \o ToString(i) \o "_" \o ToString(j)

\* ((i*z*x) + (j*x) + k) as usize
TileIndexSwapped(i, j, k, x, z) == (i * z * x) + (k * x) + j
TileIndex(i, j, k, x, z) == (i * z * x) + (j * x) + k

\* level.changedBlocks.get(&key).unwrap_or(&ChangedBlocks::new(1,255)).bt
OverrideBt(lvl, key) ==
    IF key \in DOMAIN lvl.changedBlocks THEN lvl.changedBlocks[key].bt ELSE Sentinel

\* the condition of line 239
EmitFlagNoOverride(o, bt, a) == (o = 2 /\ a = 1) \/ (o = 1 /\ a = 1) \/ o = 0
EmitFlag(o, bt, a) == (o = 2 /\ a = 1) \/ (o = 1 /\ (bt # Sentinel \/ a = 1)) \/ o = 0

\* The body of the innermost loop for (i, j, k): the atoms appended to output.
\* Called only when the index is inside both buffers.
CellAtoms(lvl, tm, tm1, o, i, j, k) ==
    LET x == lvl.worldSize
        z == lvl.worldSize
        key == PosKey(k, i, j)
        bt == OverrideBt(lvl, key)
        t0 == tm[TileIndex(i, j, k, x, z) + 1]
        t1 == tm1[TileIndex(i, j, k, x, z) + 1]
        t == IF bt # Sentinel THEN bt ELSE t0
        a == IF t = t1 THEN 0 ELSE 1
    IN  IF EmitFlag(o, bt, a)
        THEN <<key, "{", "\"", "a", "\"", ":", ToString(a), ",",
               "\"", "bt", "\"", ":", ToString(t), "}", ",">>
        ELSE <<>>

\* The loop nest `for i in 0..y { for j in 0..z { for k in 0..x` in its order.
LoopOrder(x, y, z) ==
    [n \in 1 .. (x * y * z) |->
        [i |-> (n - 1) \div (z * x), j |-> ((n - 1) \div x) % z, k |-> (n - 1) % x]]

\* Whether some indexing tile_map[..] of line 229 is out of bounds (a panic).
IndexPanics(lvl, tm) ==
    LET order == LoopOrder(lvl.worldSize, Height, lvl.worldSize)
    IN  \E n \in DOMAIN order :
            TileIndex(order[n].i, order[n].j, order[n].k, lvl.worldSize, lvl.worldSize)
                >= Len(tm)

serialize_saved_game(lvl, tm, o) ==
    LET x == lvl.worldSize
        z == lvl.worldSize
        tm1 == get_tile_map(lvl.worldSize, lvl.worldSeed)
        order == LoopOrder(x, Height, z)
        blocks == Flatten([n \in DOMAIN order |->
                      CellAtoms(lvl, tm, tm1, o, order[n].i, order[n].j, order[n].k)])
        flag == blocks # <<>>
        \* if flag {output.pop();}
        popped == IF flag THEN SubSeq(blocks, 1, Len(blocks) - 1) ELSE blocks
    IN  IF IndexPanics(lvl, tm) THEN Panic
        ELSE Ok(<<"{", "\"", "worldSeed", "\"", ":", ToString(lvl.worldSeed), ",",
                  "\"", "changedBlocks", "\"", ":", "{">>
                \o popped
                \o <<"}", ",",
                     "\"", "worldSize", "\"", ":", ToString(lvl.worldSize), ",",
                     "\"", "version", "\"", ":", ToString(lvl.version),
                     "}">>)

(***************************************************************************)
(* serde_json::from_str: the reader.  ReadValue reads one JSON value       *)
(* starting at atom i and answers [ok, v, next].  A value is a record      *)
(* [t, n, c, b, m]: its kind t and, by kind, the number n, the string's    *)
(* characters c, the boolean b, or the object's members m (in order).      *)
(***************************************************************************)
Fail == [ok |-> FALSE, v |-> <<>>, next |-> 0]
Got(val, i) == [ok |-> TRUE, v |-> val, next |-> i]

NumV(n) == [t |-> "num", n |-> n, c |-> <<>>, b |-> FALSE, m |-> <<>>]
StrV(c) == [t |-> "str", n |-> 0, c |-> c, b |-> FALSE, m |-> <<>>]
BoolV(b) == [t |-> "bool", n |-> 0, c |-> <<>>, b |-> b, m |-> <<>>]
ObjV(m) == [t |-> "obj", n |-> 0, c |-> <<>>, b |-> FALSE, m |-> m]

\* Characters a JSON string may not hold unescaped (below U+0020).
ControlAtoms == {"\n"}
\* The escapes of a JSON string among the atoms of the model: \" \\ \/ \n
EscapeOf == [e \in {"\"", "\\", "/", "n"} |->
                IF e = "n" THEN "\n" ELSE e]

\* The characters of a string literal from atom j on, up to the closing quote.
RECURSIVE ReadChars(_, _, _)
ReadChars(s, j, acc) ==
    IF j > Len(s) THEN Fail
    ELSE IF s[j] = "\"" THEN Got(acc, j + 1)
    ELSE IF s[j] = "\\"
         THEN IF j + 1 <= Len(s) /\ s[j + 1] \in DOMAIN EscapeOf
              THEN ReadChars(s, j + 2, Append(acc, EscapeOf[s[j + 1]]))
              ELSE Fail
    ELSE IF s[j] \in ControlAtoms THEN Fail
    ELSE ReadChars(s, j + 1, Append(acc, s[j]))

ReadString(s, i) ==
    IF i <= Len(s) /\ s[i] = "\"" THEN ReadChars(s, i + 1, <<>>) ELSE Fail

RECURSIVE ReadValue(_, _), ReadMembers(_, _, _)
ReadValue(s, i) ==
    IF i > Len(s) THEN Fail
    ELSE IF s[i] = "\""
         THEN LET r == ReadString(s, i)
              IN  IF r.ok THEN Got(StrV(r.v), r.next) ELSE Fail
    ELSE IF s[i] = "{"
         THEN IF i + 1 <= Len(s) /\ s[i + 1] = "}"
              THEN Got(ObjV(<<>>), i + 2)
              ELSE ReadMembers(s, i + 1, <<>>)
    ELSE IF s[i] \in NumText THEN Got(NumV(NumOf[s[i]]), i + 1)
    ELSE IF s[i] \in {"true", "false"} THEN Got(BoolV(s[i] = "true"), i + 1)
    ELSE Fail

\* One member `"key":value` at atom i, then a comma and more, or the brace.
ReadMembers(s, i, acc) ==
    LET k == ReadString(s, i)
    IN  IF ~k.ok THEN Fail
        ELSE IF ~(k.next <= Len(s) /\ s[k.next] = ":") THEN Fail
        ELSE LET v == ReadValue(s, k.next + 1)
             IN  IF ~v.ok THEN Fail
                 ELSE LET acc2 == Append(acc, [k |-> Concat(k.v), v |-> v.v])
                      IN  IF v.next > Len(s) THEN Fail
                          ELSE IF s[v.next] = "}" THEN Got(ObjV(acc2), v.next + 1)
                          ELSE IF s[v.next] = "," THEN ReadMembers(s, v.next + 1, acc2)
                          ELSE Fail

\* The whole text is one value, with nothing after it.
ReadJson(s) ==
    LET r == ReadValue(s, 1)
    IN  IF r.ok /\ r.next = Len(s) + 1 THEN r ELSE Fail

\* The members of object value o named name (a derived struct wants exactly one).
Members(o, name) == {n \in DOMAIN o.m : o.m[n].k = name}
HasField(o, name) == o.t = "obj" /\ Cardinality(Members(o, name)) = 1
FieldOf(o, name) == o.m[CHOOSE n \in Members(o, name) : TRUE].v

IsU8(v) == v.t = "num" /\ v.n \in U8
IsInt(v) == v.t = "num"
IsStr(v) == v.t = "str"
IsBool(v) == v.t = "bool"

\* #[derive(Deserialize)] struct ChangedBlocks {a: u8, bt: u8}
IsChangedBlocks(v) ==
    /\ HasField(v, "a") /\ IsU8(FieldOf(v, "a"))
    /\ HasField(v, "bt") /\ IsU8(FieldOf(v, "bt"))

\* HashMap<String,ChangedBlocks>: a later member replaces an earlier one.
IsBlockMap(v) == v.t = "obj" /\ \A n \in DOMAIN v.m : IsChangedBlocks(v.m[n].v)
BlockMapOf(v) ==
    [key \in {v.m[n].k : n \in DOMAIN v.m} |->
        LET last == CHOOSE n \in DOMAIN v.m :
                        v.m[n].k = key /\ \A n2 \in DOMAIN v.m : v.m[n2].k = key => n2 <= n
        IN  [a |-> FieldOf(v.m[last].v, "a").n, bt |-> FieldOf(v.m[last].v, "bt").n]]

(***************************************************************************)
(* deserialize_saved_game: serde_json::from_str(..).unwrap()               *)
(***************************************************************************)
deserialize_saved_game(json_string) ==
    LET r == ReadJson(json_string)
        o == r.v
    IN  IF /\ r.ok
           /\ HasField(o, "worldSeed") /\ IsInt(FieldOf(o, "worldSeed"))
           /\ HasField(o, "changedBlocks") /\ IsBlockMap(FieldOf(o, "changedBlocks"))
           /\ HasField(o, "worldSize") /\ IsInt(FieldOf(o, "worldSize"))
           /\ HasField(o, "version") /\ IsU8(FieldOf(o, "version"))
        THEN Ok([worldSeed |-> FieldOf(o, "worldSeed").n,
                 changedBlocks |-> BlockMapOf(FieldOf(o, "changedBlocks")),
                 worldSize |-> FieldOf(o, "worldSize").n,
                 version |-> FieldOf(o, "version").n])
        ELSE Panic

(***************************************************************************)
(* generate_saved_game_from_seed                                           *)
(***************************************************************************)
\* (n as f64).sqrt() as i32
SqrtFloor(n) == CHOOSE r \in 0 .. n : r * r <= n /\ (r + 1) * (r + 1) > n

\* ((tile_map.len()/64) as f64).sqrt() as i32
WorldSizeOfLenNoSqrt(len) == len \div Height
WorldSizeOfLen(len) == SqrtFloor(len \div Height)

generate_saved_game_from_seed(seed, tm) ==
    LET world_size == WorldSizeOfLen(Len(tm))
        lvl == [worldSeed |-> seed, changedBlocks |-> <<>>,
                worldSize |-> world_size, version |-> 1]
        text == serialize_saved_game(lvl, tm, 2)
    IN  IF text.status = "ok" THEN deserialize_saved_game(text.value) ELSE Panic

(***************************************************************************)
(* The codec's callers: one level and one tile buffer, then                *)
(*   serialize_saved_game -> deserialize_saved_game -> serialize again,    *)
(* or generate_saved_game_from_seed on the buffer.                         *)
(***************************************************************************)
Volume(ws) == ws * ws * Height

AllKeys(ws) ==
    {PosKey(x, y, z) : x \in 0 .. (ws - 1), y \in 0 .. (Height - 1), z \in 0 .. (ws - 1)}

\* changedBlocks maps with at most n entries, all inside the world
OverrideMaps(ws, n) ==
    UNION {[K -> [a : {1}, bt : Bytes]] :
              K \in {S \in SUBSET AllKeys(ws) : Cardinality(S) <= n}}

\* the generated buffer with at most n cells set to another byte
EditedBuffers(ws, seed, n) ==
    LET base == get_tile_map(ws, seed)
    IN  UNION {{[c \in 1 .. Volume(ws) |-> IF c \in S THEN f[c] ELSE base[c]] :
                   f \in [S -> Bytes]} :
               S \in {S \in SUBSET (1 .. Volume(ws)) : Cardinality(S) <= n}}

\* a buffer as it is, without its last byte, or with one byte more
Lengths(buf) ==
    {buf, Append(buf, 0)} \cup (IF buf = <<>> THEN {} ELSE {SubSeq(buf, 1, Len(buf) - 1)})

RandomIdle ==
    /\ random = <<>>
    /\ rand_seed = 0
    /\ rand_out = None
    /\ rand_calls = 0

CommandIdle ==
    /\ command = None
    /\ command_call = <<>>
    /\ command_file = None

SettingsIdle ==
    /\ settings = <<>>
    /\ settings_json = None
    /\ settings_back = None

\* A path on which nothing was written yet.
FreshDisk == [dirs |-> {}, metadata |-> <<>>, usage |-> FALSE]
FreshDb == [pragmas |-> {}, data |-> <<>>, has_data |-> FALSE,
            database |-> <<>>, has_database |-> FALSE]

StoreIdle ==
    /\ disk = FreshDisk
    /\ db = FreshDb
    /\ json_strings = <<>>
    /\ write_result = "none"
    /\ write_failed = {}
    /\ read_key = ""
    /\ read_result = None
    /\ writes = 0

CodecStart ==
    /\ pc = "start"
    /\ opt = 0
    /\ json = None
    /\ decoded = None
    /\ json2 = None
    /\ generated = None
    /\ SettingsIdle
    /\ StoreIdle
    /\ RandomIdle
    /\ CommandIdle

\* A level with overrides and a tile buffer of the level's volume.
InitCodec ==
    /\ \E ws \in WorldSizes, seed \in Seeds, edits \in 0 .. MaxChanges :
          /\ \E cb \in OverrideMaps(ws, MaxChanges - edits) :
                level = [worldSeed |-> seed, changedBlocks |-> cb,
                         worldSize |-> ws, version |-> 1]
          /\ tile_map \in EditedBuffers(ws, seed, edits)
    /\ CodecStart

\* A level without overrides and a tile buffer of any length near its volume.
InitBuffer ==
    /\ \E ws \in WorldSizes, seed \in Seeds :
          /\ level = [worldSeed |-> seed, changedBlocks |-> <<>>,
                      worldSize |-> ws, version |-> 1]
          /\ \E buf \in EditedBuffers(ws, seed, MaxChanges) : tile_map \in Lengths(buf)
    /\ CodecStart

Serialize(o) ==
    /\ pc = "start"
    /\ opt' = o
    /\ json' = serialize_saved_game(level, tile_map, o)
    /\ pc' = "serialized"
    /\ UNCHANGED <<utilVars, level, tile_map, decoded, json2, generated, settingsVars, storeVars>>

Deserialize ==
    /\ pc = "serialized"
    /\ json.status = "ok"
    /\ decoded' = deserialize_saved_game(json.value)
    /\ pc' = "decoded"
    /\ UNCHANGED <<utilVars, level, tile_map, opt, json, json2, generated, settingsVars, storeVars>>

Reserialize ==
    /\ pc = "decoded"
    /\ decoded.status = "ok"
    /\ json2' = serialize_saved_game(decoded.value, tile_map, 2)
    /\ pc' = "reencoded"
    /\ UNCHANGED <<utilVars, level, tile_map, opt, json, decoded, generated, settingsVars, storeVars>>

GenerateFromSeed ==
    /\ pc = "start"
    /\ generated' = generate_saved_game_from_seed(level.worldSeed, tile_map)
    /\ pc' = "generated"
    /\ UNCHANGED <<utilVars, level, tile_map, opt, json, decoded, json2, settingsVars, storeVars>>

\* serialize_saved_game alone, under each policy
NextCodec == \E o \in Opts : Serialize(o)

SpecCodec == InitCodec /\ [][NextCodec]_vars

\* encode, decode, encode again
NextRoundTrip ==
    \/ \E o \in Opts : Serialize(o)
    \/ Deserialize
    \/ Reserialize

SpecRoundTrip == InitCodec /\ [][NextRoundTrip]_vars

NextBuffer ==
    \/ \E o \in Opts : Serialize(o)
    \/ GenerateFromSeed

SpecBuffer == InitBuffer /\ [][NextBuffer]_vars

(***************************************************************************)
(* Reading the changedBlocks entries off the text serialize_saved_game     *)
(* wrote: a key atom followed by {"a":<a>,"bt":<bt>}.                       *)
(***************************************************************************)
EntryAt(text, p) ==
    /\ p + 13 <= Len(text)
    /\ text[p + 1] = "{" /\ text[p + 2] = "\"" /\ text[p + 3] = "a"
    /\ text[p + 4] = "\"" /\ text[p + 5] = ":"
    /\ text[p + 6] \in NumText
    /\ text[p + 7] = "," /\ text[p + 8] = "\"" /\ text[p + 9] = "bt"
    /\ text[p + 10] = "\"" /\ text[p + 11] = ":"
    /\ text[p + 12] \in NumText
    /\ text[p + 13] = "}"

EntryPositions(text) == {p \in DOMAIN text : EntryAt(text, p)}

Entries(text) ==
    {[key |-> text[p], a |-> NumOf[text[p + 6]], bt |-> NumOf[text[p + 12]]] :
        p \in EntryPositions(text)}

(***************************************************************************)
(* The reference diff of the specification, cell by cell.                  *)
(***************************************************************************)
HasOverride(lvl, x, y, z) ==
    /\ PosKey(x, y, z) \in DOMAIN lvl.changedBlocks
    /\ lvl.changedBlocks[PosKey(x, y, z)].bt # 255

Effective(lvl, tm, x, y, z) ==
    IF HasOverride(lvl, x, y, z)
    THEN lvl.changedBlocks[PosKey(x, y, z)].bt
    ELSE tm[y * lvl.worldSize * lvl.worldSize + z * lvl.worldSize + x + 1]

\* a: 0 when the effective block equals the baseline's, 1 otherwise
Differs(lvl, tm, base, x, y, z) ==
    IF Effective(lvl, tm, x, y, z)
          = base[y * lvl.worldSize * lvl.worldSize + z * lvl.worldSize + x + 1]
    THEN 0 ELSE 1

Emitted(lvl, tm, base, o, x, y, z) ==
    \/ o = 0
    \/ o = 1 /\ (HasOverride(lvl, x, y, z) \/ Differs(lvl, tm, base, x, y, z) = 1)
    \/ o = 2 /\ Differs(lvl, tm, base, x, y, z) = 1

Positions(ws) == (0 .. (ws - 1)) \X (0 .. (Height - 1)) \X (0 .. (ws - 1))

Reference(lvl, tm, o) ==
    LET base == get_tile_map(lvl.worldSize, lvl.worldSeed)
    IN  {[key |-> PosKey(c[1], c[2], c[3]),
          a |-> Differs(lvl, tm, base, c[1], c[2], c[3]),
          bt |-> Effective(lvl, tm, c[1], c[2], c[3])] :
            c \in {c \in Positions(lvl.worldSize) :
                      Emitted(lvl, tm, base, o, c[1], c[2], c[3])}}

ExactLength == Len(tile_map) = Volume(level.worldSize)

\* C1: for a buffer of length worldSize*worldSize*64, the entries written by
\* serialize_saved_game are exactly the reference diff for the policy: one
\* entry per emitted cell, {a, bt: effective}; for the untouched generated
\* buffer and no overrides, Full writes every cell with a = 0 and the other
\* two policies write nothing.
C1_SerializeMatchesReference ==
    (pc = "serialized" /\ ExactLength) =>
        /\ json.status = "ok"
        /\ LET written == Entries(json.value)
               count == Cardinality(EntryPositions(json.value))
               reference == Reference(level, tile_map, opt)
           IN  /\ written = reference
               /\ count = Cardinality(reference)
               /\ (tile_map = get_tile_map(level.worldSize, level.worldSeed)
                     /\ DOMAIN level.changedBlocks = {}) =>
                     IF opt = 0
                     THEN /\ count = Volume(level.worldSize)
                          /\ \A e \in written : e.a = 0
                     ELSE written = {}

\* C1's case: an override and an edited cell are both in play and an entry is written.
C1_Witness ==
    /\ pc = "serialized" /\ ExactLength /\ opt = 1
    /\ level.worldSize = 2
    /\ tile_map # get_tile_map(level.worldSize, level.worldSeed)
    /\ \E k \in DOMAIN level.changedBlocks : level.changedBlocks[k].bt # 255
    /\ \E e \in Entries(json.value) : e.a = 0
    /\ \E e \in Entries(json.value) : e.a = 1

\* The keys of the cells whose effective block differs from the baseline.
DifferingKeys(lvl, tm) == {e.key : e \in Reference(lvl, tm, 2)}

\* C2: encoding with DifferOnly (opt = 2) and decoding the text succeeds and
\* gives a level with the same worldSeed, worldSize and version whose
\* changedBlocks keys are exactly the cells that differ from the baseline.
C2_DifferOnlyRoundTrip ==
    (pc = "decoded" /\ opt = 2) =>
        /\ decoded.status = "ok"
        /\ decoded.value.worldSeed = level.worldSeed
        /\ decoded.value.worldSize = level.worldSize
        /\ decoded.value.version = level.version
        /\ DOMAIN decoded.value.changedBlocks = DifferingKeys(level, tile_map)

\* C3: after a first encode with DifferOnly or Full, decoding succeeds and
\* re-encoding the decoded level with DifferOnly against the same buffer
\* writes the same entries as one DifferOnly encode of the original level.
C3_DiffIdempotent ==
    (opt \in {0, 2}) =>
        /\ (pc = "decoded" => decoded.status = "ok")
        /\ (pc = "reencoded" =>
              /\ json2.status = "ok"
              /\ Entries(json2.value)
                    = Entries(serialize_saved_game(level, tile_map, 2).value))

\* C4: no entry written by serialize_saved_game has bt = 255, whatever the
\* overrides, the bytes of the buffer and the policy.
C4_SentinelNeverWritten ==
    (pc = "serialized" /\ json.status = "ok") =>
        \A e \in Entries(json.value) : e.bt # 255

\* C5: a tile buffer whose length is not worldSize*worldSize*64 is rejected:
\* serialize_saved_game fails on a shorter and on a longer buffer, and
\* generate_saved_game_from_seed fails on a buffer whose length is not the
\* volume of an allowed world size.
C5_LengthMismatchRejected ==
    /\ (pc = "serialized" /\ Len(tile_map) # Volume(level.worldSize)) =>
          json.status = "panic"
    /\ (pc = "generated" /\ \A ws \in WorldSizes : Len(tile_map) # Volume(ws)) =>
          generated.status = "panic"

\* C6: generate_saved_game_from_seed(seed, buffer), with the buffer the
\* generator's baseline for (worldSize, seed) and worldSize an allowed size,
\* returns worldSeed = seed, worldSize recovered from the buffer's length,
\* version = 1 and an empty changedBlocks map.
C6_SeedOnlyGeneration ==
    (/\ pc = "generated"
     /\ level.worldSize \in WorldSizes
     /\ tile_map = get_tile_map(level.worldSize, level.worldSeed)) =>
        /\ generated.status = "ok"
        /\ generated.value.worldSeed = level.worldSeed
        /\ generated.value.worldSize = level.worldSize
        /\ generated.value.version = 1
        /\ DOMAIN generated.value.changedBlocks = {}

\* C6's case: the baseline buffer of the larger world went through generation.
C6_Witness ==
    /\ pc = "generated"
    /\ level.worldSize = 2 /\ level.worldSeed = 1
    /\ tile_map = get_tile_map(level.worldSize, level.worldSeed)
    /\ generated.status = "ok"
    /\ generated.value.worldSize = 2

(***************************************************************************)
(* Settings: serialize_settings and deserialize_settings.  A String field  *)
(* is the sequence of its characters (atoms).                              *)
(***************************************************************************)
BoolFields == {"music", "sound", "invert", "fps"}
StringFields == {"forward", "left", "backward", "right", "jump", "build",
                 "chat", "fog", "saveLoc", "loadLoc", "username"}

\* Settings::default()
SettingsDefault ==
    [music |-> FALSE, sound |-> TRUE, invert |-> FALSE, fps |-> FALSE,
     drawDistance |-> 0,
     forward |-> <<"W">>, left |-> <<"A">>, backward |-> <<"S">>, right |-> <<"D">>,
     jump |-> <<"<space>">>, build |-> <<"B">>, chat |-> <<"T">>, fog |-> <<"F">>,
     saveLoc |-> <<"<enter>">>, loadLoc |-> <<"R">>, username |-> <<"noname">>]

\* format!(r#""name":{},"#, b) for a bool
BoolMember(name, b) ==
    <<"\"", name, "\"", ":", IF b THEN "true" ELSE "false", ",">>

\* format!(r#""name":{},"#, n) for an integer
IntMember(name, n) == <<"\"", name, "\"", ":", ToString(n), ",">>

\* format!(r#""name":"{}","#, s): the characters of s go out as they are
StringMember(name, str) == <<"\"", name, "\"", ":", "\"">> \o str \o <<"\"", ",">>

serialize_settings(st) ==
    LET last == StringMember("username", st.username)
    IN  <<"{">>
        \o BoolMember("music", st.music)
        \o BoolMember("sound", st.sound)
        \o BoolMember("invert", st.invert)
        \o BoolMember("fps", st.fps)
        \o IntMember("drawDistance", st.drawDistance)
        \o StringMember("forward", st.forward)
        \o StringMember("left", st.left)
        \o StringMember("backward", st.backward)
        \o StringMember("right", st.right)
        \o StringMember("jump", st.jump)
        \o StringMember("build", st.build)
        \o StringMember("chat", st.chat)
        \o StringMember("fog", st.fog)
        \o StringMember("saveLoc", st.saveLoc)
        \o StringMember("loadLoc", st.loadLoc)
        \* the last member carries no comma: r#""username":"{}""#
        \o SubSeq(last, 1, Len(last) - 1)
        \o <<"}">>

\* serde_json::from_str::<Settings>(..).unwrap()
deserialize_settings(json_string) ==
    LET r == ReadJson(json_string)
        o == r.v
    IN  IF /\ r.ok
           /\ \A f \in BoolFields : HasField(o, f) /\ IsBool(FieldOf(o, f))
           /\ HasField(o, "drawDistance") /\ IsInt(FieldOf(o, "drawDistance"))
           /\ \A f \in StringFields : HasField(o, f) /\ IsStr(FieldOf(o, f))
        THEN Ok([f \in BoolFields \cup {"drawDistance"} \cup StringFields |->
                    IF f \in BoolFields THEN FieldOf(o, f).b
                    ELSE IF f = "drawDistance" THEN FieldOf(o, f).n
                    ELSE FieldOf(o, f).c])
        ELSE Panic

\* Characters put into string fields: a letter, the letter n, a double
\* quote, a backslash and a control character (line feed).
Chars == {"a", "n", "\"", "\\", "\n"}

RECURSIVE SeqsUpTo(_, _)
SeqsUpTo(S, n) ==
    IF n = 0 THEN {<<>>}
    ELSE LET shorter == SeqsUpTo(S, n - 1)
         IN  shorter \cup {Append(q, c) : q \in shorter, c \in S}

CodecIdle ==
    /\ level = <<>>
    /\ tile_map = <<>>
    /\ opt = 0
    /\ json = None
    /\ decoded = None
    /\ json2 = None
    /\ generated = None

\* The default record with its scalars set and one string field replaced.
InitSettings ==
    /\ pc = "start"
    /\ \E f \in StringFields, str \in SeqsUpTo(Chars, MaxStrLen),
          b \in BOOLEAN, d \in {-1, 0, 7} :
          settings = [SettingsDefault EXCEPT ![f] = str, !.music = b, !.fps = ~b,
                                             !.drawDistance = d]
    /\ settings_json = None
    /\ settings_back = None
    /\ CodecIdle
    /\ StoreIdle
    /\ RandomIdle
    /\ CommandIdle

SerializeSettings ==
    /\ pc = "start"
    /\ settings_json' = Ok(serialize_settings(settings))
    /\ pc' = "settings_serialized"
    /\ UNCHANGED <<utilVars, codecVars, settings, settings_back, storeVars>>

DeserializeSettings ==
    /\ pc = "settings_serialized"
    /\ settings_back' = deserialize_settings(settings_json.value)
    /\ pc' = "settings_decoded"
    /\ UNCHANGED <<utilVars, codecVars, settings, settings_json, storeVars>>

NextSettings ==
    \/ SerializeSettings
    \/ DeserializeSettings

SpecSettings == InitSettings /\ [][NextSettings]_vars

\* The two records agree field by field (strings compared as texts).
SameSettings(s1, s2) ==
    /\ \A f \in BoolFields \cup {"drawDistance"} : s1[f] = s2[f]
    /\ \A f \in StringFields : Concat(s1[f]) = Concat(s2[f])

\* C10: deserialize_settings(serialize_settings(s)) succeeds and equals s
\* field by field, also when a string field holds a double quote, a
\* backslash or a control character.
C10_SettingsRoundTrip ==
    (pc = "settings_decoded") =>
        /\ settings_back.status = "ok"
        /\ SameSettings(settings_back.value, settings)

(***************************************************************************)
(* The persistence layout: write_data, write_saved_game, read_from_db.     *)
(* A payload string is the sequence of its characters' code points.  A     *)
(* call's I/O step may fail: the fault f names the step the environment    *)
(* fails in this call ("none": no injected failure); create_dir fails by   *)
(* itself when the directory exists.                                       *)
(***************************************************************************)
\* the origin, e.g. https://classic.minecraft.net
Website == <<"https", ":", "/", "/", "classic.minecraft.net">>

\* regex.replace_all(&website, "+") with the character class of line 393
Sanitize(website) ==
    [n \in DOMAIN website |->
        IF website[n] \in {"/", ":", "*", "?", "\"", ">", "<", "|", "\\"}
        THEN "+" ELSE website[n]]

DirOf(website) == Concat(Sanitize(website))
LsOf(website) == DirOf(website) \o "/ls"

Keys == <<"savedGame", "settings">>

Zeros(n) == [i \in 1 .. n |-> 0]

\* snap::raw::max_compress_len
MaxCompressLen(n) == 32 + n + n \div 6

\* snap::raw::Encoder::compress on an input shorter than 17 bytes: the
\* length as a varint, then one literal element (tag (len-1)<<2, the bytes).
\* An empty input is the single byte 0.
Compress(bytes) ==
    IF bytes = <<>> THEN <<0>>
    ELSE <<Len(bytes), (Len(bytes) - 1) * 4>> \o bytes

\* Lines 457-464: the output buffer of max_compress_len zeros, the
\* compressed bytes written at its front.
CompressInto(bytes) ==
    LET c == Compress(bytes)
    IN  c \o Zeros(MaxCompressLen(Len(bytes)) - Len(c))

\* Lines 465-469: pop while the popped byte is 0, push the last one back.
\* Popping an empty vector is the panic of pop().unwrap().
Trim(buf) ==
    IF \A i \in DOMAIN buf : buf[i] = 0 THEN Panic
    ELSE Ok(SubSeq(buf, 1, CHOOSE i \in DOMAIN buf :
                              buf[i] # 0 /\ \A j \in DOMAIN buf : j > i => buf[j] = 0))

\* The elements of a compressed stream from byte i on, appended to acc; n is
\* the length the header announced.  The encoder above emits literals only,
\* so a copy element (tag % 4 # 0) is never met and is not decoded here.
RECURSIVE Elements(_, _, _, _)
Elements(input, i, acc, n) ==
    IF i > Len(input) THEN [ok |-> TRUE, bytes |-> acc]
    ELSE IF input[i] % 4 = 0
    THEN LET l == input[i] \div 4 + 1
         IN  IF i + l > Len(input) \/ Len(acc) + l > n
             THEN [ok |-> FALSE, bytes |-> <<>>]
             ELSE Elements(input, i + l + 1, acc \o SubSeq(input, i + 1, i + l), n)
    ELSE [ok |-> FALSE, bytes |-> <<>>]

\* snap::raw::Decoder::decompress(input, output): Err on an empty input, on
\* an output shorter than the announced length, on a literal that runs past
\* the input, and when the elements do not add up to the announced length.
Decompress(input, output) ==
    IF input = <<>> THEN [ok |-> FALSE, bytes |-> <<>>]
    ELSE IF input[1] > Len(output) THEN [ok |-> FALSE, bytes |-> <<>>]
    ELSE LET r == Elements(input, 2, <<>>, input[1])
         IN  IF r.ok /\ Len(r.bytes) = input[1]
             THEN [ok |-> TRUE,
                   bytes |-> r.bytes \o SubSeq(output, input[1] + 1, Len(output))]
             ELSE [ok |-> FALSE, bytes |-> <<>>]

\* `ch as u8` of line 453
AsU8(ch) == ch % 256

\* One pass of the loop of lines 443-472 up to the insert: the row to store.
RowOf(str) ==
    LET decompressed == [i \in DOMAIN str |-> AsU8(str[i])]
        trimmed == Trim(CompressInto(decompressed))
    IN  IF trimmed.status = "panic" THEN Panic
        ELSE Ok([utf16_length |-> Len(str), conversion_type |-> 1,
                 compression_type |-> 1, last_access_time |-> 0,
                 value |-> trimmed.value])

\* INSERT OR REPLACE INTO data: key is the PRIMARY KEY
Upsert(data, key, row) ==
    [k \in DOMAIN data \cup {key} |-> IF k = key THEN row ELSE data[k]]

WriteOut(dirs, metadata, usage, dbrec, result, failed) ==
    [disk |-> [dirs |-> dirs, metadata |-> metadata, usage |-> usage],
     db |-> dbrec, result |-> result, failed |-> failed]

\* write_data(file_path, json_strings, website) on disk d and store b, at
\* clock reading now, with the environment failing step f.
write_data(d, b, strs, website, f, now) ==
    LET dir == DirOf(website)
        ls == LsOf(website)
        \* create_dir(..): results dropped (lines 397-398)
        mk1_fails == dir \in d.dirs \/ f = "create_dir"
        dirs1 == IF mk1_fails THEN d.dirs ELSE d.dirs \cup {dir}
        mk2_fails == ls \in dirs1 \/ dir \notin dirs1 \/ f = "create_ls"
        dirs2 == IF mk2_fails THEN dirs1 ELSE dirs1 \cup {ls}
        \* fs::write(.metadata-v2): result dropped (line 414)
        meta_fails == dir \notin dirs2 \/ f = "metadata"
        meta2 == IF meta_fails THEN d.metadata
                 ELSE <<[timestamp |-> now, persisted |-> 0, suffix |-> 0, group |-> 0,
                         origin |-> Concat(website), is_app |-> 0]>>
        open_fails == ls \notin dirs2 \/ f = "open"
        \* pragma_update x3 and VACUUM: results dropped (lines 420-424)
        pragmas2 == b.pragmas
                    \cup (IF f = "pragma_user_version" THEN {} ELSE {<<"user_version", 80>>})
                    \cup (IF f = "pragma_auto_vacuum" THEN {} ELSE {<<"auto_vacuum", 2>>})
                    \cup (IF f = "pragma_page_size" THEN {} ELSE {<<"page_size", 1024>>})
        dropped == (IF mk1_fails THEN {"create_dir"} ELSE {})
                   \cup (IF mk2_fails THEN {"create_ls"} ELSE {})
                   \cup (IF meta_fails THEN {"metadata"} ELSE {})
        dropped2 == dropped
                    \cup ({f} \cap {"pragma_user_version", "pragma_auto_vacuum",
                                    "pragma_page_size", "vacuum"})
        b1 == [b EXCEPT !.pragmas = pragmas2]
        b2 == [b1 EXCEPT !.has_data = TRUE]
        row1 == RowOf(strs[1])
        b3 == [b2 EXCEPT !.data = Upsert(b2.data, Keys[1], row1.value)]
        row2 == RowOf(strs[2])
        b4 == [b3 EXCEPT !.data = Upsert(b3.data, Keys[2], row2.value)]
        len == Len(strs[1]) + Len(strs[2]) + 10
        b5 == [b4 EXCEPT !.has_database = TRUE]
        b6 == [b5 EXCEPT !.database =
                  Append(b5.database,
                         [origin |-> Concat(website), usage |-> len,
                          last_vacuum_time |-> now, last_analyze_time |-> 0])]
        usage_fails == f = "usage"
    IN  IF open_fails
        THEN WriteOut(dirs2, meta2, d.usage, b, "err", dropped \cup {"open"})
        ELSE IF f = "create_data"
        THEN WriteOut(dirs2, meta2, d.usage, b1, "err", dropped2 \cup {f})
        ELSE IF row1.status = "panic"
        THEN WriteOut(dirs2, meta2, d.usage, b2, "panic", dropped2)
        ELSE IF f = "insert_savedGame"
        THEN WriteOut(dirs2, meta2, d.usage, b2, "err", dropped2 \cup {f})
        ELSE IF row2.status = "panic"
        THEN WriteOut(dirs2, meta2, d.usage, b3, "panic", dropped2)
        ELSE IF f = "insert_settings"
        THEN WriteOut(dirs2, meta2, d.usage, b3, "err", dropped2 \cup {f})
        ELSE IF f = "file_size"
        THEN WriteOut(dirs2, meta2, d.usage, b4, "panic", dropped2 \cup {f})
        ELSE IF f = "create_database"
        THEN WriteOut(dirs2, meta2, d.usage, b4, "err", dropped2 \cup {f})
        ELSE IF f = "insert_database"
        THEN WriteOut(dirs2, meta2, d.usage, b5, "err", dropped2 \cup {f})
        ELSE WriteOut(dirs2, meta2, d.usage \/ ~usage_fails, b6, "ok",
                      dropped2 \cup (IF usage_fails THEN {"usage"} ELSE {}))

\* write_saved_game: write_data's result is dropped, Ok(()) returned (509-511)
write_saved_game(d, b, str, settings_str, website, f, now) ==
    LET r == write_data(d, b, <<str, settings_str>>, website, f, now)
    IN  [r EXCEPT !.result = IF r.result = "panic" THEN "panic" ELSE "ok"]

\* read_from_db(file_path, object)
read_from_db(d, b, website, object) ==
    IF LsOf(website) \notin d.dirs THEN [status |-> "err", value |-> <<>>]
    ELSE IF ~b.has_data THEN [status |-> "err", value |-> <<>>]
    ELSE LET found == object \in DOMAIN b.data
             compressed_object == IF found THEN b.data[object].value ELSE <<>>
             decompressed_length == IF found THEN b.data[object].utf16_length ELSE 0
             r == Decompress(compressed_object, Zeros(decompressed_length))
         IN  IF r.ok THEN Ok(r.bytes) ELSE Panic

\* Characters of payloads: NUL, the letter a, and one character outside
\* ASCII (U+0161).
PayloadChars == {0, 97, 353}
Payloads == SeqsUpTo(PayloadChars, MaxPayloadLen)
\* The payloads of the runs with I/O failures: "a" and "{}".
StorePayloads == {<<97>>, <<123, 125>>}
\* Stands for the text of serialize_settings(Settings::default()), which
\* write_saved_game stores: ASCII, no NUL, its last character a brace.
DefaultSettingsText == <<123, 125>>

Faults == {"none", "create_dir", "create_ls", "metadata", "open",
           "pragma_user_version", "pragma_auto_vacuum", "pragma_page_size", "vacuum",
           "create_data", "insert_savedGame", "insert_settings", "file_size",
           "create_database", "insert_database", "usage"}

InitStore ==
    /\ pc = "store"
    /\ CodecIdle
    /\ SettingsIdle
    /\ StoreIdle
    /\ RandomIdle
    /\ CommandIdle

Written(r, strs) ==
    /\ disk' = r.disk
    /\ db' = r.db
    /\ json_strings' = strs
    /\ write_result' = r.result
    /\ write_failed' = r.failed
    /\ read_key' = ""
    /\ read_result' = None
    /\ writes' = writes + 1
    /\ UNCHANGED <<utilVars, pc, codecVars, settingsVars>>

WriteData(strs, f) ==
    /\ writes < MaxWrites
    /\ Written(write_data(disk, db, strs, Website, f, writes + 1), strs)

WriteSavedGame(str, f) ==
    /\ writes < MaxWrites
    /\ Written(write_saved_game(disk, db, str, DefaultSettingsText, Website, f, writes + 1),
               <<str, DefaultSettingsText>>)

\* read_saved_game and read_settings are read_from_db on their key
ReadFromDb(object) ==
    /\ read_key' = object
    /\ read_result' = read_from_db(disk, db, Website, object)
    /\ UNCHANGED <<utilVars, pc, codecVars, settingsVars, disk, db, json_strings, write_result,
                   write_failed, writes>>

\* Writes of any payload pair without injected failures, and reads.
NextPersist ==
    \/ \E s1 \in Payloads, s2 \in Payloads : WriteData(<<s1, s2>>, "none")
    \/ \E k \in {"savedGame", "settings"} : ReadFromDb(k)

SpecPersist == InitStore /\ [][NextPersist]_vars

\* Writes with an I/O step failing, and reads.
NextStore ==
    \/ \E s1 \in StorePayloads, s2 \in StorePayloads, f \in Faults : WriteData(<<s1, s2>>, f)
    \/ \E s1 \in StorePayloads, f \in Faults : WriteSavedGame(s1, f)
    \/ \E k \in {"savedGame", "settings"} : ReadFromDb(k)

SpecStore == InitStore /\ [][NextStore]_vars

IsAscii(str) == \A i \in DOMAIN str : str[i] < 128
KeyIndex(k) == IF k = "savedGame" THEN 1 ELSE 2

\* C7: write_data of two ASCII payloads into a fresh path, then read_from_db
\* of either key, gives back exactly the payload written under that key.
C7_PersistenceRoundTrip ==
    (/\ writes = 1
     /\ write_failed = {}
     /\ IsAscii(json_strings[1]) /\ IsAscii(json_strings[2])) =>
        /\ write_result = "ok"
        /\ read_result # None => read_result = Ok(json_strings[KeyIndex(read_key)])

\* C8: a write call in which a step failed (create_dir, the write of
\* .metadata-v2 or ls/usage, a pragma, VACUUM, an insert, ...) does not
\* return success: write_data and write_saved_game return an error.
C8_WriteFailuresSurface ==
    (write_result # "none" /\ write_failed # {}) => write_result = "err"

\* C9: read_from_db of a key for which the data table holds no row returns
\* an error value: no empty string, no abort.
C9_MissingRowIsError ==
    (read_result # None /\ db.has_data /\ read_key \notin DOMAIN db.data) =>
        read_result.status = "err"

(***************************************************************************)
(* converter/src/random.rs: the Lehmer generator.  The state is an i32.    *)
(* The integers of the checker are 32 bits wide, as the i32 of the code.   *)
(***************************************************************************)
Modulus == 2147483647
Multiplier == 16807
I32Max == 2147483647
I32Min == -I32Max - 1

\* The % of Rust on i32: the remainder has the sign of the dividend.
Rem(a, b) ==
    LET f == a % b
    IN  IF a < 0 /\ f # 0 THEN f - b ELSE f

\* Random::new without the shift of non-positive remainders.
newNoShift(seed) == [rand |-> Rem(seed, Modulus)]

\* Random::new
new(seed) ==
    LET seed1 == Rem(seed, Modulus)
        seed2 == IF seed1 <= 0 THEN seed1 + 2147483646 ELSE seed1
    IN  [rand |-> seed2]

\* x * 16807 % 2147483647 for 0 <= x < 2147483647.  The code forms the
\* product in 128 bits; here it is formed in pieces that stay below 2^31
\* (with q = Modulus div Multiplier and r = Modulus mod Multiplier,
\* Multiplier * x = Multiplier * (x mod q) - r * (x div q) modulo Modulus,
\* and the right-hand side lies in (-Modulus, Modulus)).
MulMod(x) ==
    LET q == Modulus \div Multiplier
        r == Modulus % Multiplier
        t == Multiplier * (x % q) - r * (x \div q)
    IN  IF t < 0 THEN t + Modulus ELSE t

\* Random::next: the new value and the returned number.  A negative rand
\* is sign-extended by `as u128` and the product overflows 128 bits.
next(self) ==
    IF self.rand < 0 THEN [self |-> self, status |-> "overflow", ret |-> 0]
    ELSE LET rand == MulMod(self.rand)
         IN  [self |-> [rand |-> rand], status |-> "ok", ret |-> rand]

\* Random::next_float: the f64 quotient, kept as numerator and denominator
\* (both are integers below 2^31, which f64 holds exactly).
next_float(self) ==
    LET n == next(self)
    IN  [self |-> n.self, status |-> n.status,
         ret |-> [num |-> n.ret - 1, den |-> 2147483646]]

\* <<k * num div den, k * num mod den>> for 0 <= num < den, by k additions
RECURSIVE Scaled(_, _, _)
Scaled(num, den, k) ==
    IF k = 0 THEN <<0, 0>>
    ELSE LET p == Scaled(num, den, k - 1)
         IN  IF p[2] >= den - num THEN <<p[1] + 1, p[2] - (den - num)>>
             ELSE <<p[1], p[2] + num>>

\* Random::next_int for max a power of two: the product of the f64 quotient
\* with max is then exact, and its floor is the floor of max * num / den.
next_int(self, max) ==
    LET f == next_float(self)
    IN  [self |-> f.self, status |-> f.status,
         ret |-> IF f.ret.num < 0 THEN -1 ELSE Scaled(f.ret.num, f.ret.den, max)[1]]

RandomSeeds == {0, 1, -1, 2, 3, 42, 1000, 16807, 127773, 2147483646, I32Max,
                -I32Max, I32Min}
MaxInts == {1, 2, 16}

InitRandom ==
    /\ pc = "random"
    /\ \E seed \in RandomSeeds :
          /\ rand_seed = seed
          /\ random = new(seed)
    /\ rand_out = None
    /\ rand_calls = 0
    /\ CodecIdle
    /\ SettingsIdle
    /\ StoreIdle
    /\ CommandIdle

Called(r, kind) ==
    /\ rand_calls < MaxCalls
    /\ random' = r.self
    /\ rand_out' = [status |-> r.status, kind |-> kind, value |-> r.ret]
    /\ rand_calls' = rand_calls + 1
    /\ UNCHANGED <<pc, rand_seed, codecVars, settingsVars, storeVars, commandVars>>

RandomNext == Called(next(random), "next")
RandomNextFloat == Called(next_float(random), "next_float")
RandomNextInt(max) == Called(next_int(random, max), "next_int")

NextRandom ==
    \/ RandomNext
    \/ RandomNextFloat
    \/ \E max \in MaxInts : RandomNextInt(max)

SpecRandom == InitRandom /\ [][NextRandom]_vars

Backquote == "BACKQUOTE"

\* r#"localStorage.setItem("savedGame", `"#
OpenSavedGame == <<"localStorage.setItem(", "\"", "savedGame", "\"", ", ", Backquote>>
\* r#"localStorage.setItem("settings", `"#
OpenSettings == <<"localStorage.setItem(", "\"", "settings", "\"", ", ", Backquote>>
\* r#"`)"#
Close == <<Backquote, ")">>

\* if file != "" {fs::write(file, output.clone()).expect(..)}; return output
\* fs_ok: whether the environment lets the write succeed.
Emit(file, output, old_file, fs_ok) ==
    IF file = "" THEN [result |-> Ok(output), file |-> old_file]
    ELSE IF fs_ok THEN [result |-> Ok(output), file |-> Ok(output)]
    ELSE [result |-> Panic, file |-> old_file]

write_saved_game_command(file, json_string, old_file, fs_ok) ==
    Emit(file, OpenSavedGame \o json_string \o Close, old_file, fs_ok)

write_settings_command(file, json_string, old_file, fs_ok) ==
    Emit(file, OpenSettings \o json_string \o Close, old_file, fs_ok)

\* `open` is the savedGame prefix, and it is used for both statements
write_local_storage_command(file, strs, old_file, fs_ok) ==
    LET open == OpenSavedGame
        output1 == open \o strs[1] \o Close
        output2 == output1 \o <<";">>
        output3 == output2 \o (open \o strs[2] \o Close)
    IN  Emit(file, output3, old_file, fs_ok)

CommandChars == {"a", ";", Backquote}
CommandPayloads == SeqsUpTo(CommandChars, MaxStrLen)
CommandFiles == {"", "command.txt"}

InitCommand ==
    /\ pc = "command"
    /\ CodecIdle
    /\ SettingsIdle
    /\ StoreIdle
    /\ RandomIdle
    /\ CommandIdle

Commanded(r, fn, file, args) ==
    /\ pc = "command"
    /\ pc' = "command_done"
    /\ command' = r.result
    /\ command_file' = r.file
    /\ command_call' = [fn |-> fn, file |-> file, args |-> args]
    /\ UNCHANGED <<codecVars, settingsVars, storeVars, randomVars>>

WriteSavedGameCommand(file, str, fs_ok) ==
    Commanded(write_saved_game_command(file, str, command_file, fs_ok),
              "write_saved_game_command", file, <<str>>)

WriteSettingsCommand(file, str, fs_ok) ==
    Commanded(write_settings_command(file, str, command_file, fs_ok),
              "write_settings_command", file, <<str>>)

WriteLocalStorageCommand(file, strs, fs_ok) ==
    Commanded(write_local_storage_command(file, strs, command_file, fs_ok),
              "write_local_storage_command", file, strs)

NextCommand ==
    \/ \E file \in CommandFiles, str \in CommandPayloads, fs_ok \in BOOLEAN :
          WriteSavedGameCommand(file, str, fs_ok)
    \/ \E file \in CommandFiles, str \in CommandPayloads, fs_ok \in BOOLEAN :
          WriteSettingsCommand(file, str, fs_ok)
    \/ \E file \in CommandFiles, s1 \in CommandPayloads, s2 \in CommandPayloads,
          fs_ok \in BOOLEAN :
          WriteLocalStorageCommand(file, <<s1, s2>>, fs_ok)

SpecCommand == InitCommand /\ [][NextCommand]_vars

\* C12: what write_local_storage_command returns is the savedGame statement
\* for json_strings[0], a semicolon, and the settings statement for
\* json_strings[1]: write_saved_game_command("", json_strings[0]) + ";" +
\* write_settings_command("", json_strings[1]).
C12_LocalStorageCommandIsBoth ==
    (command_call # <<>> /\ command_call.fn = "write_local_storage_command"
        /\ command # Panic) =>
        command.value =
            write_saved_game_command("", command_call.args[1], None, TRUE).result.value
            \o <<";">>
            \o write_settings_command("", command_call.args[2], None, TRUE).result.value

\* C13: after one or more write_data calls on the same directory root with
\* the same origin, the data table holds exactly one row for savedGame and
\* one for settings, each as written by the most recent call, and the
\* database table holds exactly one row, whose origin is that origin.
C13_WritesAreUpserts ==
    (writes >= 1 /\ write_result = "ok") =>
        /\ DOMAIN db.data = {"savedGame", "settings"}
        /\ db.data["savedGame"] = RowOf(json_strings[1]).value
        /\ db.data["settings"] = RowOf(json_strings[2]).value
        /\ Len(db.database) = 1
        /\ db.database[1].origin = Concat(Website)

====
